---- MODULE Spec2Model ----
(***************************************************************************)
(* Model of otelmiddleware/tracing.go: the TraceWithOptions middleware.    *)
(* Strings that the code slices or concatenates (request URI, span name)   *)
(* are sequences of tokens, so that uri[1:] and "+" are real operations.   *)
(***************************************************************************)
EXTENDS Integers, Sequences, FiniteSets, TLC

(* ---------------------------------------------------------------- bounds *)
MaxUriLen == 2
MaxCalls == 2
MaxOpts == 2
NumSlots == 2

Slots == 1..NumSlots

SeqsUpTo(S, n) == UNION {[1..k -> S] : k \in 0..n}

(* ------------------------------------------------------- request inputs *)
UriChars == {"/", "a"}
URIs == SeqsUpTo(UriChars, MaxUriLen)
Methods == {"GET", "POST"}
Proto == "HTTP/1.1"

HeaderNames == {"traceparent", "b3"}
NoSC == [traceId |-> "none", spanId |-> "none"]
Absent == [kind |-> "absent", sc |-> NoSC]
Garbage == [kind |-> "garbage", sc |-> NoSC]
RemoteSC(n) == IF n = "traceparent" THEN [traceId |-> "T1", spanId |-> "P1"]
               ELSE [traceId |-> "T2", spanId |-> "P2"]
ValidHdr(n) == [kind |-> "valid", sc |-> RemoteSC(n)]
InboundHeaders == {h \in [HeaderNames -> {Absent, Garbage} \cup {ValidHdr(n) : n \in HeaderNames}] :
                     \A n \in HeaderNames : h[n].kind = "valid" => h[n] = ValidHdr(n)}
LocalSC == [traceId |-> "T0", spanId |-> "P0"]
InboundContexts == {NoSC, LocalSC}
Requests == [uri : URIs, method : Methods, header : InboundHeaders, context : InboundContexts]
SmallRequests == [uri : {<<"/", "a">>}, method : {"GET"},
                  header : {[n \in HeaderNames |-> Absent]}, context : {NoSC}]

(* --------------------------------------------------------- propagators *)
GlobalPropagator == "tracecontext"
HeaderOf(p) == IF p = "tracecontext" THEN "traceparent" ELSE "b3"

\* propagation.TextMapPropagator.Extract: a valid header of the propagator's
\* own format replaces the span context; anything else leaves ctx unchanged.
PropagatorExtract(p, ctx, header) ==
    IF header[HeaderOf(p)].kind = "valid" THEN header[HeaderOf(p)].sc ELSE ctx

\* propagation.TextMapPropagator.Inject: writes the span context of ctx
\* into the header of the propagator's own format.
PropagatorInject(p, ctx, header) ==
    IF ctx = NoSC THEN header
    ELSE [header EXCEPT ![HeaderOf(p)] = [kind |-> "valid", sc |-> ctx]]

(* ------------------------------------------------------- configuration *)
EmptyConfig == [serviceName |-> "", tracer |-> "nil", propagator |-> "nil", attributes |-> <<>>]

WithTracer(t) == [opt |-> "WithTracer", str |-> t, attrs |-> <<>>]
WithPropagator(p) == [opt |-> "WithPropagator", str |-> p, attrs |-> <<>>]
WithServiceName(s) == [opt |-> "WithServiceName", str |-> s, attrs |-> <<>>]
WithAttributes(a) == [opt |-> "WithAttributes", str |-> "", attrs |-> a]

AttrSets == {<<>>, <<"k1">>, <<"k2">>}
Options == {WithTracer("custom"), WithPropagator("b3"),
            WithServiceName("svc"), WithServiceName("")}
           \cup {WithAttributes(a) : a \in AttrSets}

\* variant: WithAttributes appends to the attribute list
ApplyOptionAppend(o, c) ==
    CASE o.opt = "WithTracer" -> [c EXCEPT !.tracer = o.str]
      [] o.opt = "WithPropagator" -> [c EXCEPT !.propagator = o.str]
      [] o.opt = "WithServiceName" -> [c EXCEPT !.serviceName = o.str]
      [] OTHER -> [c EXCEPT !.attributes = @ \o o.attrs]

\* the closure returned by each With... function, applied to the config
ApplyOption(o, c) ==
    CASE o.opt = "WithTracer" -> [c EXCEPT !.tracer = o.str]
      [] o.opt = "WithPropagator" -> [c EXCEPT !.propagator = o.str]
      [] o.opt = "WithServiceName" -> [c EXCEPT !.serviceName = o.str]
      [] OTHER -> [c EXCEPT !.attributes = o.attrs]

RECURSIVE ApplyOptions(_, _)
ApplyOptions(os, c) ==
    IF os = <<>> THEN c ELSE ApplyOptions(Tail(os), ApplyOption(Head(os), c))

ApplyDefaults(c) ==
    [serviceName |-> IF c.serviceName = "" THEN "TracedApplication" ELSE c.serviceName,
     tracer |-> IF c.tracer = "nil" THEN "default" ELSE c.tracer,
     propagator |-> IF c.propagator = "nil" THEN GlobalPropagator ELSE c.propagator,
     attributes |-> c.attributes]

(* ------------------------------------------------------------ the span *)
NoSpan == [started |-> FALSE, name |-> <<>>, attrs |-> <<>>, kind |-> "none",
           tracer |-> "nil", sc |-> NoSC, parent |-> NoSC, recording |-> FALSE,
           status |-> -1, ended |-> 0]

\* trace.Tracer.Start: child of the span context in ctx, or a new root
TracerStart(tracer, ctx, spanName, attrs, rec) ==
    [started |-> TRUE, name |-> spanName, attrs |-> attrs, kind |-> "server",
     tracer |-> tracer,
     sc |-> [traceId |-> IF ctx = NoSC THEN "fresh" ELSE ctx.traceId, spanId |-> "S"],
     parent |-> ctx, recording |-> rec, status |-> -1, ended |-> 0]

\* span.IsRecording()
IsRecording(s) == s.recording /\ s.ended = 0

extractRoutePanics(uri) == Len(uri) = 0
extractRoute(uri) == SubSeq(uri, 2, Len(uri))

SpanName(uri, method) ==
    LET route == extractRoute(uri)
        name == IF route = <<>> THEN <<Proto, " ", method, " ", "/">> ELSE route
    IN <<method, " ", "/">> \o name

StartAttributes(uri, method, c) ==
    << <<"net.transport", <<"tcp">> >>,
       <<"http.route", extractRoute(uri)>>,
       <<"http.method", <<method>> >>,
       <<"telemetry.sdk.language", <<"go">> >> >>
    \o (IF Len(c.attributes) > 0 THEN [i \in 1..Len(c.attributes) |-> <<c.attributes[i], <<>> >>]
        ELSE <<>>)

(* ------------------------------------------------- response writers *)
StatusCodes == {200, 404}
WriterCalls == {[op |-> "WriteHeader", code |-> c] : c \in StatusCodes}
               \cup {[op |-> "Write", code |-> 0]}
Behaviours == [calls : SeqsUpTo(WriterCalls, MaxCalls), panics : BOOLEAN]
SmallBehaviours == [calls : {<<>>}, panics : BOOLEAN]

\* the server's own writer: the first status line is the one sent
NewWriter == [wroteHeader |-> FALSE, status |-> 0]
WriterWriteHeader(w, code) == IF w.wroteHeader THEN w ELSE [wroteHeader |-> TRUE, status |-> code]
WriterWrite(w) == WriterWriteHeader(w, 200)
\* the status the client receives when the handler returns normally
ClientStatus(w) == IF w.wroteHeader THEN w.status ELSE 200

\* the status capturer: wrapper record is [status, inner]
NewWrapResponseWriter(w) == [wrapped |-> TRUE, status |-> 0, inner |-> w]
NoWrapper == [wrapped |-> FALSE, status |-> 0, inner |-> NewWriter]
WrapWriteHeader(wr, code) ==
    [wr EXCEPT !.status = code, !.inner = WriterWriteHeader(wr.inner, code)]
WrapWrite(wr) ==
    [wr EXCEPT !.status = IF wr.status = 0 THEN 200 ELSE wr.status,
               !.inner = WriterWrite(wr.inner)]
WrapStatus(wr) == wr.status

RECURSIVE RunCalls(_, _)
RunCalls(calls, wr) ==
    IF calls = <<>> THEN wr
    ELSE RunCalls(Tail(calls),
                  IF Head(calls).op = "WriteHeader" THEN WrapWriteHeader(wr, Head(calls).code)
                  ELSE WrapWrite(wr))

(* ---------------------------------------------------------------- state *)
VARIABLES constructed, opts, config, pc, request, ctx, span, wrapperRes, handler, outcome, log

vars == <<constructed, opts, config, pc, request, ctx, span, wrapperRes, handler, outcome, log>>

NoRequest == [uri |-> <<>>, method |-> "", header |-> [n \in HeaderNames |-> Absent],
              context |-> NoSC]
NoHandler == [calls |-> <<>>, panics |-> FALSE, invoked |-> 0, sawSpan |-> FALSE,
              sawHeader |-> [n \in HeaderNames |-> Absent], sawWrapped |-> FALSE]

Init ==
    /\ constructed = FALSE
    /\ opts = <<>>
    /\ config = EmptyConfig
    /\ pc = [r \in Slots |-> "idle"]
    /\ request = [r \in Slots |-> NoRequest]
    /\ ctx = [r \in Slots |-> NoSC]
    /\ span = [r \in Slots |-> NoSpan]
    /\ wrapperRes = [r \in Slots |-> NoWrapper]
    /\ handler = [r \in Slots |-> NoHandler]
    /\ outcome = [r \in Slots |-> "none"]
    /\ log = [r \in Slots |-> <<>>]

(* ------------------------------------------------------------ actions *)
reqVars == <<pc, request, ctx, span, wrapperRes, handler, outcome, log>>

\* TraceWithOptions(opt...): apply the options in order, then the defaults
TraceWithOptions(OS) ==
    /\ ~constructed
    /\ \E os \in OS :
         /\ opts' = os
         /\ config' = ApplyDefaults(ApplyOptions(os, EmptyConfig))
    /\ constructed' = TRUE
    /\ UNCHANGED reqVars

\* the host server hands a request to the returned handler
Begin(r, R) ==
    /\ constructed
    /\ pc[r] = "idle"
    /\ \E q \in R : request' = [request EXCEPT ![r] = q]
    /\ pc' = [pc EXCEPT ![r] = "extract"]
    /\ UNCHANGED <<constructed, opts, config, ctx, span, wrapperRes, handler, outcome, log>>

\* variant: extraction with the global propagator
ExtractGlobal(r) ==
    /\ pc[r] = "extract"
    /\ ctx' = [ctx EXCEPT ![r] = PropagatorExtract(GlobalPropagator, request[r].context, request[r].header)]
    /\ log' = [log EXCEPT ![r] = Append(@, "extract")]
    /\ pc' = [pc EXCEPT ![r] = "start"]
    /\ UNCHANGED <<constructed, opts, config, request, span, wrapperRes, handler, outcome>>

\* variant: the handler re-reads the global propagator into the config
ExtractStoresPropagator(r) ==
    /\ pc[r] = "extract"
    /\ config' = [config EXCEPT !.propagator = GlobalPropagator]
    /\ ctx' = [ctx EXCEPT ![r] = PropagatorExtract(GlobalPropagator, request[r].context, request[r].header)]
    /\ log' = [log EXCEPT ![r] = Append(@, "extract")]
    /\ pc' = [pc EXCEPT ![r] = "start"]
    /\ UNCHANGED <<constructed, opts, request, span, wrapperRes, handler, outcome>>

\* lines 68-70
Extract(r) ==
    /\ pc[r] = "extract"
    /\ ctx' = [ctx EXCEPT ![r] = PropagatorExtract(config.propagator, request[r].context, request[r].header)]
    /\ log' = [log EXCEPT ![r] = Append(@, "extract")]
    /\ pc' = [pc EXCEPT ![r] = "start"]
    /\ UNCHANGED <<constructed, opts, config, request, span, wrapperRes, handler, outcome>>

\* lines 72-98: span options, span name, tracer.Start, defer span.End()
StartSpan(r) ==
    /\ pc[r] = "start"
    /\ IF extractRoutePanics(request[r].uri)
       THEN /\ pc' = [pc EXCEPT ![r] = "done"]
            /\ outcome' = [outcome EXCEPT ![r] = "middleware-panic"]
            /\ UNCHANGED <<span, ctx, log>>
       ELSE /\ \E rec \in BOOLEAN :
                 span' = [span EXCEPT ![r] =
                     TracerStart(config.tracer, ctx[r],
                                 SpanName(request[r].uri, request[r].method),
                                 StartAttributes(request[r].uri, request[r].method, config), rec)]
            /\ ctx' = [ctx EXCEPT ![r] = span'[r].sc]
            /\ log' = [log EXCEPT ![r] = Append(@, "start")]
            /\ pc' = [pc EXCEPT ![r] = "withctx"]
            /\ UNCHANGED outcome
    /\ UNCHANGED <<constructed, opts, config, request, wrapperRes, handler>>

\* line 101
WithContext(r) ==
    /\ pc[r] = "withctx"
    /\ request' = [request EXCEPT ![r].context = ctx[r]]
    /\ log' = [log EXCEPT ![r] = Append(@, "withctx")]
    /\ pc' = [pc EXCEPT ![r] = "inject"]
    /\ UNCHANGED <<constructed, opts, config, ctx, span, wrapperRes, handler, outcome>>

\* variant: injection with the configured propagator
InjectConfigured(r) ==
    /\ pc[r] = "inject"
    /\ request' = [request EXCEPT ![r].header = PropagatorInject(config.propagator, ctx[r], @)]
    /\ log' = [log EXCEPT ![r] = Append(@, "inject")]
    /\ pc' = [pc EXCEPT ![r] = "wrap"]
    /\ UNCHANGED <<constructed, opts, config, ctx, span, wrapperRes, handler, outcome>>

\* lines 102-103
Inject(r) ==
    /\ pc[r] = "inject"
    /\ request' = [request EXCEPT ![r].header = PropagatorInject(GlobalPropagator, ctx[r], @)]
    /\ log' = [log EXCEPT ![r] = Append(@, "inject")]
    /\ pc' = [pc EXCEPT ![r] = "wrap"]
    /\ UNCHANGED <<constructed, opts, config, ctx, span, wrapperRes, handler, outcome>>

\* line 107
Wrap(r) ==
    /\ pc[r] = "wrap"
    /\ wrapperRes' = [wrapperRes EXCEPT ![r] = NewWrapResponseWriter(NewWriter)]
    /\ log' = [log EXCEPT ![r] = Append(@, "wrap")]
    /\ pc' = [pc EXCEPT ![r] = "serve"]
    /\ UNCHANGED <<constructed, opts, config, request, ctx, span, handler, outcome>>

\* line 110: the downstream handler runs, then returns or panics
ServeNext(r, B) ==
    /\ pc[r] = "serve"
    /\ \E b \in B :
         /\ handler' = [handler EXCEPT ![r] =
                [calls |-> b.calls, panics |-> b.panics, invoked |-> @.invoked + 1,
                 sawSpan |-> span[r].started /\ request[r].context = span[r].sc,
                 sawHeader |-> request[r].header,
                 sawWrapped |-> wrapperRes[r].wrapped]]
         /\ wrapperRes' = [wrapperRes EXCEPT ![r] = RunCalls(b.calls, @)]
         /\ pc' = [pc EXCEPT ![r] = IF b.panics THEN "unwind" ELSE "status"]
    /\ log' = [log EXCEPT ![r] = Append(@, "serve")]
    /\ UNCHANGED <<constructed, opts, config, request, ctx, span, outcome>>

\* variant: the status attribute is always 200
SetStatusOK(r) ==
    /\ pc[r] = "status"
    /\ IF IsRecording(span[r])
       THEN /\ span' = [span EXCEPT ![r].status = 200]
            /\ log' = [log EXCEPT ![r] = Append(@, "status")]
       ELSE UNCHANGED <<span, log>>
    /\ pc' = [pc EXCEPT ![r] = "end"]
    /\ UNCHANGED <<constructed, opts, config, request, ctx, wrapperRes, handler, outcome>>

\* variant: span.End() is called before the status attribute is set
SetStatusAfterEnd(r) ==
    /\ pc[r] = "status"
    /\ span' = [span EXCEPT ![r].ended = @ + 1, ![r].status = WrapStatus(wrapperRes[r])]
    /\ log' = [log EXCEPT ![r] = @ \o <<"end", "status">>]
    /\ outcome' = [outcome EXCEPT ![r] = "returned"]
    /\ pc' = [pc EXCEPT ![r] = "done"]
    /\ UNCHANGED <<constructed, opts, config, request, ctx, wrapperRes, handler>>

\* lines 112-114
SetStatus(r) ==
    /\ pc[r] = "status"
    /\ IF IsRecording(span[r])
       THEN /\ span' = [span EXCEPT ![r].status = WrapStatus(wrapperRes[r])]
            /\ log' = [log EXCEPT ![r] = Append(@, "status")]
       ELSE UNCHANGED <<span, log>>
    /\ pc' = [pc EXCEPT ![r] = "end"]
    /\ UNCHANGED <<constructed, opts, config, request, ctx, wrapperRes, handler, outcome>>

\* variant: span.End() is a plain call at the end of fn, not deferred
DeferEndOnReturnOnly(r) ==
    /\ pc[r] \in {"end", "unwind"}
    /\ span' = [span EXCEPT ![r].ended = IF pc[r] = "end" THEN @ + 1 ELSE @]
    /\ log' = [log EXCEPT ![r] = IF pc[r] = "end" THEN Append(@, "end") ELSE @]
    /\ outcome' = [outcome EXCEPT ![r] = IF pc[r] = "end" THEN "returned" ELSE "handler-panic"]
    /\ pc' = [pc EXCEPT ![r] = "done"]
    /\ UNCHANGED <<constructed, opts, config, request, ctx, wrapperRes, handler>>

\* line 98: the deferred span.End(), on return and on panic
DeferEnd(r) ==
    /\ pc[r] \in {"end", "unwind"}
    /\ span' = [span EXCEPT ![r].ended = @ + 1]
    /\ log' = [log EXCEPT ![r] = Append(@, "end")]
    /\ outcome' = [outcome EXCEPT ![r] = IF pc[r] = "end" THEN "returned" ELSE "handler-panic"]
    /\ pc' = [pc EXCEPT ![r] = "done"]
    /\ UNCHANGED <<constructed, opts, config, request, ctx, wrapperRes, handler>>

\* the request is over; its per-request values are discarded
Finish(r) ==
    /\ pc[r] = "done"
    /\ pc' = [pc EXCEPT ![r] = "idle"]
    /\ request' = [request EXCEPT ![r] = NoRequest]
    /\ ctx' = [ctx EXCEPT ![r] = NoSC]
    /\ span' = [span EXCEPT ![r] = NoSpan]
    /\ wrapperRes' = [wrapperRes EXCEPT ![r] = NoWrapper]
    /\ handler' = [handler EXCEPT ![r] = NoHandler]
    /\ outcome' = [outcome EXCEPT ![r] = "none"]
    /\ log' = [log EXCEPT ![r] = <<>>]
    /\ UNCHANGED <<constructed, opts, config>>

\* the handler fn of lines 67-115, one step at a time
Fn(r, R, B) ==
    \/ Begin(r, R)
    \/ Extract(r)
    \/ StartSpan(r)
    \/ WithContext(r)
    \/ Inject(r)
    \/ Wrap(r)
    \/ ServeNext(r, B)
    \/ SetStatus(r)
    \/ DeferEnd(r)
    \/ Finish(r)

\* one request at a time, every request and handler behaviour
Next ==
    \/ TraceWithOptions(SeqsUpTo(Options, 1))
    \/ Fn(1, Requests, Behaviours)

Spec == Init /\ [][Next]_vars

\* every option list, one plain request at a time
NextOpts ==
    \/ TraceWithOptions(SeqsUpTo(Options, MaxOpts))
    \/ Fn(1, SmallRequests, SmallBehaviours)

SpecOpts == Init /\ [][NextOpts]_vars

\* requests handled concurrently
NextConc ==
    \/ TraceWithOptions(SeqsUpTo(Options, 1))
    \/ \E r \in Slots : Fn(r, SmallRequests, SmallBehaviours)

SpecConc == Init /\ [][NextConc]_vars

(* ------------------------------------------------------------- claims *)
Returned(r) == pc[r] = "end" \/ (pc[r] = "done" /\ outcome[r] = "returned")
MaxOf(S) == CHOOSE x \in S : \A y \in S : y <= x
Canon == <<"extract", "start", "withctx", "inject", "wrap", "serve", "status", "end">>
CanonCore == <<"extract", "start", "withctx", "inject", "wrap", "serve", "end">>
Pos(step) == CHOOSE i \in DOMAIN Canon : Canon[i] = step
NotStatus(step) == step # "status"

\* C1: the span name is "<protocol> <method> /" for the request path "/"
\* and "<method> /<stripped-path>" for every other path.
C1_SpanName ==
    \A r \in Slots : span[r].started =>
        LET stripped == Tail(request[r].uri)
        IN span[r].name = IF stripped = <<>>
                          THEN <<Proto, " ", request[r].method, " ", "/">>
                          ELSE <<request[r].method, " ", "/">> \o stripped

\* C2: a started span is not ended while the handler runs, and is ended
\* exactly once when the request is over, whether the downstream handler
\* returned or panicked.
C2_SpanEndedOnce ==
    \A r \in Slots :
        /\ span[r].ended <= 1
        /\ (pc[r] = "done" /\ span[r].started) => span[r].ended = 1
        /\ pc[r] # "done" => span[r].ended = 0

C2_Witness ==
    \E r \in Slots : pc[r] = "done" /\ outcome[r] = "handler-panic" /\ span[r].ended = 1

\* C3: after a normal return, a recording span's status attribute is the
\* code of the handler's (last) explicit status-set call, or 200 when the
\* handler only wrote body bytes.
C3_StatusCaptured ==
    \A r \in Slots : (Returned(r) /\ span[r].recording) =>
        LET calls == handler[r].calls
            wh == {i \in DOMAIN calls : calls[i].op = "WriteHeader"}
        IN /\ wh # {} => span[r].status = calls[MaxOf(wh)].code
           /\ (wh = {} /\ calls # <<>>) => span[r].status = 200

C3_Witness ==
    \E r \in Slots : /\ pc[r] = "done" /\ outcome[r] = "returned" /\ span[r].recording
                     /\ handler[r].calls = <<[op |-> "WriteHeader", code |-> 404]>>
                     /\ span[r].status = 404

\* C4: for each configuration field the last option that sets it decides
\* the field (an unset or zero value then takes the default), and the
\* static attributes on every span are those of the last WithAttributes
\* call alone.
LastOption(name) ==
    LET idx == {i \in DOMAIN opts : opts[i].opt = name}
    IN IF idx = {} THEN [opt |-> name, str |-> "", attrs |-> <<>>] ELSE opts[MaxOf(idx)]

C4_LastOptionWins ==
    constructed =>
        /\ config.attributes = LastOption("WithAttributes").attrs
        /\ config.tracer = IF LastOption("WithTracer").str = "" THEN "default"
                           ELSE LastOption("WithTracer").str
        /\ config.propagator = IF LastOption("WithPropagator").str = "" THEN GlobalPropagator
                               ELSE LastOption("WithPropagator").str
        /\ config.serviceName = IF LastOption("WithServiceName").str = "" THEN "TracedApplication"
                                ELSE LastOption("WithServiceName").str
        /\ \A r \in Slots : span[r].started =>
              /\ span[r].tracer = config.tracer
              /\ [i \in 1..(Len(span[r].attrs) - 4) |-> span[r].attrs[i + 4][1]]
                   = LastOption("WithAttributes").attrs

C4_Witness ==
    /\ opts = <<WithAttributes(<<"k1">>), WithAttributes(<<"k2">>)>>
    /\ \E r \in Slots : span[r].started /\ span[r].attrs[Len(span[r].attrs)][1] = "k2"
                        /\ Len(span[r].attrs) = 5

C6_ConfigReadOnly == [][constructed => config' = config]_vars

C6_Witness ==
    /\ constructed
    /\ pc[1] = "done" /\ span[1].ended = 1
    /\ pc[2] = "serve"

\* C7: the steps of one request occur in the fixed order, each at most
\* once; the handler runs only after span start and header injection, and
\* the status attribute is set only before the span ends.
C7_StepOrder ==
    \A r \in Slots :
        LET l == log[r]
            core == SelectSeq(l, NotStatus)
        IN /\ \A i, j \in DOMAIN l : i < j => Pos(l[i]) < Pos(l[j])
           /\ Len(core) <= Len(CanonCore) /\ core = SubSeq(CanonCore, 1, Len(core))
           /\ handler[r].invoked > 0 =>
                 /\ handler[r].sawSpan
                 /\ handler[r].sawHeader[HeaderOf(GlobalPropagator)].sc = span[r].sc
                 /\ handler[r].sawWrapped
           /\ span[r].status # -1 => \E i \in DOMAIN l : l[i] = "status"

C7_Witness ==
    \E r \in Slots : pc[r] = "done" /\ log[r] = Canon

\* C8: the injection step writes the span's context in the global
\* propagator's header and leaves every other header as it was, also when
\* another propagator is configured.
C8_InjectGlobal ==
    [][\A r \in Slots : (pc[r] = "inject" /\ pc'[r] = "wrap") =>
          /\ request'[r].header[HeaderOf(GlobalPropagator)] = [kind |-> "valid", sc |-> span[r].sc]
          /\ \A n \in HeaderNames \ {HeaderOf(GlobalPropagator)} :
                request'[r].header[n] = request[r].header[n]]_vars

C8_Witness ==
    \E r \in Slots : /\ pc[r] = "wrap" /\ config.propagator = "b3"
                     /\ request[r].header["traceparent"] = [kind |-> "valid", sc |-> span[r].sc]
                     /\ request[r].header["b3"].kind = "absent"

\* C9: whatever the request URI, the middleware does not fail: a finished
\* request had its span started and its downstream handler invoked exactly
\* once with the wrapped writer and the span-bearing context.
C9_NeverFails ==
    \A r \in Slots : pc[r] = "done" =>
        /\ outcome[r] # "middleware-panic"
        /\ span[r].started
        /\ handler[r].invoked = 1 /\ handler[r].sawWrapped /\ handler[r].sawSpan

\* C10: after a normal return, the status recorded on a recording span is
\* the status the client received.
C10_RecordedIsSent ==
    \A r \in Slots : (Returned(r) /\ span[r].recording) =>
        span[r].status = ClientStatus(wrapperRes[r].inner)

====
